---- MODULE Spec2Model ----
(***************************************************************************)
(* Model of chat-ui/src/App.tsx: the React component App, its handler      *)
(* handleSend (request, read loop, frame decoder, event dispatch) and the  *)
(* input controls that start a turn.                                       *)
(*                                                                         *)
(* Text is modelled character by character: a JavaScript string is a       *)
(* sequence of one-character strings.  The values null and undefined are   *)
(* the one-element sequences Null and Undefined, whose element is not a    *)
(* character, so they differ from every string.                            *)
(***************************************************************************)
EXTENDS Integers, Sequences, FiniteSets, TLC

Null == <<"null">>
Undefined == <<"undefined">>

(***************************************************************************)
(* String literals of App.tsx.                                             *)
(***************************************************************************)
EventPrefix == <<"e", "v", "e", "n", "t", ":">>
DataPrefix == <<"d", "a", "t", "a", ":">>
TagToolCall == <<"t", "o", "o", "l", "_", "c", "a", "l", "l">>
TagToolUpdate == <<"t", "o", "o", "l", "_", "u", "p", "d", "a", "t", "e">>
TagFinal == <<"f", "i", "n", "a", "l">>
TagError == <<"e", "r", "r", "o", "r">>
KeyRole == <<"r", "o", "l", "e">>
KeyContent == <<"c", "o", "n", "t", "e", "n", "t">>
RoleSystem == <<"s", "y", "s", "t", "e", "m">>
RoleUser == <<"u", "s", "e", "r">>
\* The messages of the two string literals handleSend falls back to.
MsgFailed == <<"Failed to get response from AI">>
MsgUnexpected == <<"An unexpected error occurred">>
\* The system prompt (lines 22-58), kept as one opaque token: no code reads
\* its characters.
SystemPrompt == <<"<instructions>">>
systemMessage == [role |-> RoleSystem, content |-> SystemPrompt]

(***************************************************************************)
(* String primitives of JavaScript used by the decoder.                    *)
(***************************************************************************)
\* The white space String.prototype.trim removes, within the alphabet used.
WhiteSpace == {" ", "\t", "\n", "\r"}

\* s.slice(from) with a 0-based index, as in JavaScript.
SliceFrom(s, from) == SubSeq(s, from + 1, Len(s))

\* s.slice(0, to) with a 0-based exclusive end.
SliceTo(s, to) == SubSeq(s, 1, to)

\* s.trim()
RECURSIVE TrimStart(_)
TrimStart(s) ==
    IF s # <<>> /\ Head(s) \in WhiteSpace THEN TrimStart(Tail(s)) ELSE s

RECURSIVE TrimEnd(_)
TrimEnd(s) ==
    IF s # <<>> /\ s[Len(s)] \in WhiteSpace
    THEN TrimEnd(SubSeq(s, 1, Len(s) - 1))
    ELSE s

Trim(s) == TrimEnd(TrimStart(s))

\* s.startsWith(p)
StartsWith(s, p) == Len(s) >= Len(p) /\ SubSeq(s, 1, Len(p)) = p

\* buffer.replace(/\r/g, '')
StripCR(s) == SelectSeq(s, LAMBDA c : c # "\r")

\* buffer.indexOf('\n\n'): the 0-based index of the first blank-line
\* terminator, -1 when there is none.
IndexOfTerminator(s) ==
    LET At(i) == s[i] = "\n" /\ s[i + 1] = "\n"
    IN  IF \E i \in 1..(Len(s) - 1) : At(i)
        THEN (CHOOSE i \in 1..(Len(s) - 1) :
                  At(i) /\ \A j \in 1..(i - 1) : ~At(j)) - 1
        ELSE -1

\* raw.split('\n')
RECURSIVE SplitLines(_)
SplitLines(s) ==
    IF \A i \in 1..Len(s) : s[i] # "\n" THEN <<s>>
    ELSE LET i == CHOOSE k \in 1..Len(s) :
                      s[k] = "\n" /\ \A j \in 1..(k - 1) : s[j] # "\n"
         IN  <<SubSeq(s, 1, i - 1)>> \o SplitLines(SubSeq(s, i + 1, Len(s)))

(***************************************************************************)
(* Frame parsing (lines 118-127): the last event: line names the tag, the  *)
(* data: lines are trimmed and concatenated.                               *)
(***************************************************************************)
RECURSIVE ParseLines(_, _)
ParseLines(lines, acc) ==
    IF lines = <<>> THEN acc
    ELSE LET line == Head(lines)
         IN  ParseLines(Tail(lines),
                 IF StartsWith(line, EventPrefix)
                 THEN [acc EXCEPT !.event = Trim(SliceFrom(line, 6))]
                 ELSE IF StartsWith(line, DataPrefix)
                 THEN [acc EXCEPT !.data = @ \o Trim(SliceFrom(line, 5))]
                 ELSE acc)

ParseFrame(raw) == ParseLines(SplitLines(raw), [event |-> <<>>, data |-> <<>>])

(***************************************************************************)
(* JSON.parse(data) (line 143), for the JSON texts the modelled streams    *)
(* carry: null, a string without escapes, and a flat object whose member   *)
(* values are strings or null, with white space between the tokens.  Any   *)
(* other text makes the parse throw; the payloads of Scenarios are chosen  *)
(* so that this agrees with JSON.parse on every one of them.               *)
(***************************************************************************)
JsonFail == [ok |-> FALSE, kind |-> "none", str |-> <<>>, members |-> <<>>, next |-> 0]

SkipWS(s, i) ==
    CHOOSE j \in i..(Len(s) + 1) :
        /\ j = Len(s) + 1 \/ s[j] \notin WhiteSpace
        /\ \A k \in i..(j - 1) : s[k] \in WhiteSpace

\* A string token starting at the quote at position i.
JsonString(s, i) ==
    LET close == {j \in (i + 1)..Len(s) : s[j] = "\""}
    IN  IF i > Len(s) \/ s[i] # "\"" \/ close = {} THEN JsonFail
        ELSE LET j == CHOOSE k \in close : \A m \in close : k <= m
                 body == SubSeq(s, i + 1, j - 1)
             IN  IF \E k \in 1..Len(body) : body[k] \in {"\\", "\t", "\n", "\r"}
                 THEN JsonFail
                 ELSE [ok |-> TRUE, kind |-> "string", str |-> body,
                       members |-> <<>>, next |-> j + 1]

JsonNull(s, i) ==
    IF SubSeq(s, i, i + 3) = <<"n", "u", "l", "l">>
    THEN [ok |-> TRUE, kind |-> "null", str |-> <<>>, members |-> <<>>, next |-> i + 4]
    ELSE JsonFail

JsonScalar(s, i) ==
    IF i <= Len(s) /\ s[i] = "\"" THEN JsonString(s, i) ELSE JsonNull(s, i)

\* The members of an object, from the first character of a key at i.
RECURSIVE JsonMembers(_, _, _)
JsonMembers(s, i, acc) ==
    LET key == JsonString(s, i)
        colon == SkipWS(s, key.next)
        val == JsonScalar(s, SkipWS(s, colon + 1))
        sep == SkipWS(s, val.next)
        member == [key |-> key.str,
                   val |-> IF val.kind = "null" THEN Null ELSE val.str]
    IN  IF ~key.ok \/ colon > Len(s) \/ s[colon] # ":" THEN JsonFail
        ELSE IF ~val.ok \/ sep > Len(s) THEN JsonFail
        ELSE IF s[sep] = "}"
        THEN [ok |-> TRUE, kind |-> "object", str |-> <<>>,
              members |-> Append(acc, member), next |-> sep + 1]
        ELSE IF s[sep] = ","
        THEN JsonMembers(s, SkipWS(s, sep + 1), Append(acc, member))
        ELSE JsonFail

JsonValue(s, i) ==
    IF i > Len(s) THEN JsonFail
    ELSE IF s[i] = "{"
    THEN LET j == SkipWS(s, i + 1)
         IN  IF j <= Len(s) /\ s[j] = "}"
             THEN [ok |-> TRUE, kind |-> "object", str |-> <<>>,
                   members |-> <<>>, next |-> j + 1]
             ELSE JsonMembers(s, j, <<>>)
    ELSE JsonScalar(s, i)

JSONParse(data) ==
    LET v == JsonValue(data, SkipWS(data, 1))
    IN  IF v.ok /\ SkipWS(data, v.next) = Len(data) + 1 THEN v ELSE JsonFail

\* parsed.<key> for a parsed value that is not null: the last member of that
\* name of an object, undefined for an absent member and for a string.
Prop(parsed, key) ==
    LET at == {i \in 1..Len(parsed.members) : parsed.members[i].key = key}
    IN  IF parsed.kind # "object" \/ at = {} THEN Undefined
        ELSE parsed.members[CHOOSE i \in at : \A j \in at : i >= j].val

\* error.message of what JSON.parse throws and of the TypeError of reading a
\* property of null; the texts are the engine's, kept as opaque tokens.
\* JSON.parse throws inside handleSend (line 143).  The TypeError is thrown
\* by parsed.role inside the updater function passed to setMessages (lines
\* 144-150), which React calls while it renders, not handleSend.
MsgSyntaxError == <<"SyntaxError: JSON.parse">>
MsgTypeErrorNull == <<"TypeError: Cannot read properties of null">>

(***************************************************************************)
(* Bounds of the model.                                                    *)
(***************************************************************************)
\* Turns sent in one browser session.
MaxTurns == 2
\* handleSend executions that can exist at once (one per click).
MaxRuns == 2
\* Date.now() + Math.random() takes the values 0..MaxId.
MaxId == 1

(***************************************************************************)
(* The environment: what the user types and what the network answers.      *)
(***************************************************************************)
Quote == <<"\"">>
NL == <<"\n">>
CRLF == <<"\r", "\n">>

\* One frame as the backend's encoder writes it (spec 4.2).
Frame(tag, payload) == EventPrefix \o tag \o NL \o DataPrefix \o payload \o NL \o NL

\* The same frame with a space after each colon and CRLF line ends.
FrameCRLF(tag, payload) ==
    EventPrefix \o <<" ">> \o tag \o CRLF \o DataPrefix \o <<" ">> \o payload
        \o CRLF \o CRLF

\* A Message as JSON text.
MessageJson(role, content) ==
    <<"{">> \o Quote \o KeyRole \o Quote \o <<":">> \o Quote \o role \o Quote
        \o <<",", " ">> \o Quote \o KeyContent \o Quote \o <<":">> \o Quote
        \o content \o Quote \o <<"}">>

RoleA == <<"a">>
FinalOk == Frame(TagFinal, MessageJson(RoleA, <<"o", "k">>))

\* What one request meets.  fetch: "reject" (the promise rejects), "bad" (a
\* response that is not ok, or has no body, with the text it carries) or
\* "ok"; body: the bytes of the stream; ending: after the body the stream
\* closes ("close") or the read rejects ("abort").
Scenario(fetch, text, body, ending) ==
    [fetch |-> fetch, text |-> text, body |-> body, ending |-> ending]

Scenarios ==
    << Scenario("ok", <<>>,
           Frame(TagToolCall, <<"c">>) \o FrameCRLF(TagToolUpdate, <<"u">>) \o FinalOk,
           "close"),
       Scenario("ok", <<>>, Frame(TagError, <<"e">>), "close"),
       Scenario("ok", <<>>, Frame(TagToolCall, <<"c">>), "close"),
       Scenario("ok", <<>>, SubSeq(FinalOk, 1, Len(FinalOk) - 1), "close"),
       Scenario("ok", <<>>, SubSeq(Frame(TagToolUpdate, <<"u">>), 1, 19), "abort"),
       Scenario("ok", <<>>,
           Frame(<<"p", "i", "n", "g">>, <<"x">>) \o NL \o NL \o FinalOk, "close"),
       Scenario("ok", <<>>,
           Frame(TagToolCall, <<"c">>) \o Frame(TagFinal, <<"o", "o", "p", "s">>)
               \o FinalOk,
           "close"),
       Scenario("ok", <<>>, Frame(TagError, <<"e">>) \o FinalOk, "close"),
       Scenario("ok", <<>>, Frame(TagFinal, <<"n", "u", "l", "l">>), "close"),
       Scenario("bad", <<"5", "0", "0">>, <<>>, "close"),
       Scenario("bad", <<>>, <<>>, "close"),
       Scenario("reject", <<"Failed to fetch">>, <<>>, "close") >>

\* error.message of a rejected read.
MsgNetwork == <<"network error">>

\* The values setInput is called with: what the user types into the input
\* field (e.target.value) or the text of the suggestion button clicked.
InputValues == {<<>>, <<" ">>, <<" ", "h", "i">>}

(***************************************************************************)
(* State.                                                                  *)
(***************************************************************************)
VARIABLES
    messages,      \* useState<Message[]>: the durable history
    input,         \* useState(''): the input field
    isLoading,     \* useState(false)
    error,         \* useState<string | null>(null)
    toolMessages,  \* useState<ToolMessage[]>: the transient tool notices
    run,           \* the executions of handleSend, one record per slot
    pos,           \* per slot, the bytes of the body delivered so far
    turnNo,        \* turns sent so far
    mounted        \* the component tree is mounted

vars == <<messages, input, isLoading, error, toolMessages, run, pos, turnNo, mounted>>

Runs == 1..MaxRuns

\* A slot no execution of handleSend has used yet.
\*   pc       where the execution is suspended: "fetch" (line 87), "read"
\*            (line 108), "done" (returned), "idle" (never started)
\*   sc       the scenario its request meets
\*   buffer   the local variable buffer (line 105)
\*   request  the messages of the request body (line 94)
\*   turn     the number of the turn it serves
\*   events   the (event, data) pairs it has dispatched, in order
\*   outcome  how it ended
\*   split    some chunk so far ended inside a blank-line terminator
\*   stale    the execution that used the slot before left bytes in its buffer
IdleRun ==
    [pc |-> "idle", sc |-> 1, buffer |-> <<>>, request |-> <<>>,
     turn |-> 0, events |-> <<>>, outcome |-> "none", split |-> FALSE,
     stale |-> FALSE]

Init ==
    /\ messages = <<systemMessage>>
    /\ input = <<>>
    /\ isLoading = FALSE
    /\ error = Null
    /\ toolMessages = <<>>
    /\ run = [s \in Runs |-> IdleRun]
    /\ pos = [s \in Runs |-> 0]
    /\ turnNo = 0
    /\ mounted = TRUE

(***************************************************************************)
(* Event dispatch (lines 129-154) on the state st the setters act on:      *)
(* messages, toolMessages, error; thrown is the message of the exception   *)
(* that left the loop (Null while none has), events the dispatch log and   *)
(* ids the ids the coming notices get.                                     *)
(***************************************************************************)
\* Mutant: the new notice replaces the notices shown.
OnToolEventReplacing(st, data) ==
    [st EXCEPT !.toolMessages = <<[id |-> Head(st.ids), content |-> data]>>,
               !.ids = Tail(@)]

\* lines 129-137: tool_call and tool_update append one notice.
OnToolEvent(st, data) ==
    [st EXCEPT !.toolMessages = Append(@, [id |-> Head(st.ids), content |-> data]),
               !.ids = Tail(@)]

\* Mutant: final appends the Message and leaves the notices.
OnFinalKeepingNotices(st, data) ==
    LET parsed == JSONParse(data)
    IN  IF ~parsed.ok THEN [st EXCEPT !.thrown = MsgSyntaxError]
        ELSE IF parsed.kind = "null" THEN [st EXCEPT !.thrown = MsgTypeErrorNull]
        ELSE [st EXCEPT !.messages =
                  Append(@, [role |-> Prop(parsed, KeyRole),
                             content |-> Prop(parsed, KeyContent)])]

\* Mutant: final writes the Message over the last one of the history.
OnFinalOverwritingLast(st, data) ==
    LET parsed == JSONParse(data)
        cleared == [st EXCEPT !.toolMessages = <<>>]
    IN  IF ~parsed.ok THEN [cleared EXCEPT !.thrown = MsgSyntaxError]
        ELSE IF parsed.kind = "null" THEN [cleared EXCEPT !.thrown = MsgTypeErrorNull]
        ELSE [cleared EXCEPT !.messages =
                  Append(SubSeq(@, 1, Len(@) - 1),
                         [role |-> Prop(parsed, KeyRole),
                          content |-> Prop(parsed, KeyContent)])]

\* lines 139-150: final clears the notices, parses, appends the Message.
\* thrown records the SyntaxError of JSON.parse and, for a payload that
\* parses to null, the TypeError the updater will throw (RenderCrashes).
OnFinal(st, data) ==
    LET parsed == JSONParse(data)
        cleared == [st EXCEPT !.toolMessages = <<>>]
    IN  IF ~parsed.ok THEN [cleared EXCEPT !.thrown = MsgSyntaxError]
        ELSE IF parsed.kind = "null" THEN [cleared EXCEPT !.thrown = MsgTypeErrorNull]
        ELSE [cleared EXCEPT !.messages =
                  Append(@, [role |-> Prop(parsed, KeyRole),
                             content |-> Prop(parsed, KeyContent)])]

\* Mutant: the error event is shown as a Message instead of as the error.
OnErrorAsMessage(st, data) ==
    [st EXCEPT !.messages = Append(@, [role |-> RoleA, content |-> data])]

\* Mutant: the error event also clears the notices.
OnErrorClearingNotices(st, data) ==
    [st EXCEPT !.error = data, !.toolMessages = <<>>]

\* lines 152-154
OnError(st, data) == [st EXCEPT !.error = data]

Dispatch(st, ev) ==
    LET logged == [st EXCEPT !.events = Append(@, ev)]
    IN  IF ev.event = TagToolCall THEN OnToolEvent(logged, ev.data)
        ELSE IF ev.event = TagToolUpdate THEN OnToolEvent(logged, ev.data)
        ELSE IF ev.event = TagFinal THEN OnFinal(logged, ev.data)
        ELSE IF ev.event = TagError THEN OnError(logged, ev.data)
        ELSE logged

(***************************************************************************)
(* The inner loop (lines 113-155): while the buffer holds a terminator,    *)
(* cut the frame before it, skip it when blank, else parse and dispatch.   *)
(* An exception leaves the loop with the buffer as it then stands.         *)
(***************************************************************************)
\* Mutant: an if in place of the while: one frame is cut per chunk.
DrainOneFrame(buffer, st) ==
    LET index == IndexOfTerminator(buffer)
        raw == SliceTo(buffer, index)
        rest == SliceFrom(buffer, index + 2)
    IN  IF index = -1 THEN [buffer |-> buffer, st |-> st]
        ELSE IF Trim(raw) = <<>> THEN [buffer |-> rest, st |-> st]
        ELSE [buffer |-> rest, st |-> Dispatch(st, ParseFrame(raw))]

RECURSIVE Drain(_, _)
Drain(buffer, st) ==
    LET index == IndexOfTerminator(buffer)
        raw == SliceTo(buffer, index)
        rest == SliceFrom(buffer, index + 2)
    IN  IF index = -1 \/ st.thrown # Null THEN [buffer |-> buffer, st |-> st]
        ELSE IF Trim(raw) = <<>> THEN Drain(rest, st)
        ELSE Drain(rest, Dispatch(st, ParseFrame(raw)))

\* Mutant: the chunk replaces the buffer instead of being appended to it.
AppendChunkDroppingTail(buffer, chunk) == StripCR(chunk)

\* lines 110-111: buffer += decoder.decode(value); buffer = buffer.replace(...)
AppendChunk(buffer, chunk) == StripCR(buffer \o chunk)

\* The bytes received end between the two line feeds of a terminator that
\* the bytes still to come complete.
EndsInsideTerminator(received, coming) ==
    /\ received # <<>>
    /\ received[Len(received)] = "\n"
    /\ StripCR(coming) # <<>>
    /\ Head(StripCR(coming)) = "\n"
    /\ IndexOfTerminator(received) = -1

\* The notices the frames now complete in the buffer will create.
RECURSIVE NoticeCount(_)
NoticeCount(buffer) ==
    LET index == IndexOfTerminator(buffer)
        ev == ParseFrame(SliceTo(buffer, index))
    IN  IF index = -1 THEN 0
        ELSE (IF ev.event \in {TagToolCall, TagToolUpdate} THEN 1 ELSE 0)
                 + NoticeCount(SliceFrom(buffer, index + 2))

(***************************************************************************)
(* Operations.                                                             *)
(***************************************************************************)
\* Mutant: the controls are never disabled.
SendNeverDisabled == FALSE

\* disabled={isLoading} on the input field and on the buttons (lines 205,
\* 220, 224): React re-renders before the next user event is handled.
SendDisabled == isLoading

\* Mutant: the buffer outlives the execution of handleSend.
StaleBuffer(s) == run[s].buffer

\* The value the local variable buffer starts with (line 105).
InitialBuffer(s) == <<>>

\* lines 160-162: the finally block runs on every way out of the try block,
\* whether it threw or not, and sets isLoading to false.
FinallyLoading(threw) == FALSE

\* lines 157-159: error instanceof Error ? error.message : '...'; every
\* value thrown here is an Error, given by its message.
CatchMessage(thrown) == IF thrown = Undefined THEN MsgUnexpected ELSE thrown

\* The exception is thrown by the updater of setMessages while React
\* renders App (lines 144-150): no error boundary encloses App, so React
\* unmounts the tree.  The render never commits, the state updates of the
\* chunk are lost with it, and whatever handleSend does afterwards acts on
\* an unmounted component, without effect.
RenderCrashes(thrown) == thrown = MsgTypeErrorNull

\* setInput(value): onChange of the input field (line 216) and onClick of
\* a suggestion button (line 204); both controls are disabled while loading.
SetInput(v) ==
    /\ mounted
    /\ ~SendDisabled
    /\ input' = v
    /\ UNCHANGED <<messages, isLoading, error, toolMessages, run, pos, turnNo, mounted>>

\* Mutant: handleSend without setError(null).
HandleSendKeepingError(s, sc) ==
    /\ mounted
    /\ ~SendDisabled
    /\ turnNo < MaxTurns
    /\ run[s].pc \in {"idle", "done"}
    /\ \A t \in Runs : t < s => run[t].pc \notin {"idle", "done"}
    /\ IF Trim(input) = <<>>
       THEN UNCHANGED vars
       ELSE LET userMessage == [role |-> RoleUser, content |-> input]
            IN  /\ messages' = Append(messages, userMessage)
                /\ input' = <<>>
                /\ isLoading' = TRUE
                /\ run' = [run EXCEPT ![s] =
                       [pc |-> "fetch", sc |-> sc, buffer |-> @.buffer,
                        request |-> Append(messages, userMessage),
                        turn |-> turnNo + 1, events |-> <<>>, outcome |-> "none",
                        split |-> FALSE, stale |-> @.buffer # <<>>]]
                /\ pos' = [pos EXCEPT ![s] = 0]
                /\ turnNo' = turnNo + 1
                /\ UNCHANGED <<toolMessages, error, mounted>>

\* Mutant: the request body is built from messages alone, which does not
\* hold the user's Message yet.
HandleSendStaleBody(s, sc) ==
    /\ mounted
    /\ ~SendDisabled
    /\ turnNo < MaxTurns
    /\ run[s].pc \in {"idle", "done"}
    /\ \A t \in Runs : t < s => run[t].pc \notin {"idle", "done"}
    /\ IF Trim(input) = <<>>
       THEN UNCHANGED vars
       ELSE LET userMessage == [role |-> RoleUser, content |-> input]
            IN  /\ messages' = Append(messages, userMessage)
                /\ input' = <<>>
                /\ isLoading' = TRUE
                /\ error' = Null
                /\ run' = [run EXCEPT ![s] =
                       [pc |-> "fetch", sc |-> sc, buffer |-> @.buffer,
                        request |-> messages,
                        turn |-> turnNo + 1, events |-> <<>>, outcome |-> "none",
                        split |-> FALSE, stale |-> @.buffer # <<>>]]
                /\ pos' = [pos EXCEPT ![s] = 0]
                /\ turnNo' = turnNo + 1
                /\ UNCHANGED <<toolMessages, mounted>>

\* handleSend up to its first await (lines 73-96), started by the send
\* button or the Enter key; sc is what the request will meet.
HandleSend(s, sc) ==
    /\ mounted
    /\ ~SendDisabled
    /\ turnNo < MaxTurns
    /\ run[s].pc \in {"idle", "done"}
    /\ \A t \in Runs : t < s => run[t].pc \notin {"idle", "done"}
    /\ IF Trim(input) = <<>>
       THEN UNCHANGED vars
       ELSE LET userMessage == [role |-> RoleUser, content |-> input]
            IN  /\ messages' = Append(messages, userMessage)
                /\ input' = <<>>
                /\ isLoading' = TRUE
                /\ error' = Null
                /\ run' = [run EXCEPT ![s] =
                       [pc |-> "fetch", sc |-> sc, buffer |-> @.buffer,
                        request |-> Append(messages, userMessage),
                        turn |-> turnNo + 1, events |-> <<>>, outcome |-> "none",
                        split |-> FALSE, stale |-> @.buffer # <<>>]]
                /\ pos' = [pos EXCEPT ![s] = 0]
                /\ turnNo' = turnNo + 1
                /\ UNCHANGED <<toolMessages, mounted>>

\* The catch and finally blocks (lines 157-162) after a throw with message msg.
Fail(s, msg, outcome) ==
    /\ error' = CatchMessage(msg)
    /\ isLoading' = FinallyLoading(TRUE)
    /\ run' = [run EXCEPT ![s].pc = "done", ![s].outcome = outcome]

\* fetch rejects (line 87).
FetchRejected(s) ==
    /\ run[s].pc = "fetch"
    /\ Scenarios[run[s].sc].fetch = "reject"
    /\ Fail(s, Scenarios[run[s].sc].text, "fetch rejected")
    /\ UNCHANGED <<messages, input, toolMessages, pos, turnNo, mounted>>

\* The response is not ok or has no body (lines 98-101): errorData is its
\* text, '' when reading the text fails.
FetchNotOk(s) ==
    /\ run[s].pc = "fetch"
    /\ Scenarios[run[s].sc].fetch = "bad"
    /\ LET errorData == Scenarios[run[s].sc].text
       IN  Fail(s, IF errorData = <<>> THEN MsgFailed ELSE errorData, "not ok")
    /\ UNCHANGED <<messages, input, toolMessages, pos, turnNo, mounted>>

\* The response is ok: the reader, the decoder and the empty buffer
\* (lines 103-105), up to the first read.
FetchOk(s) ==
    /\ run[s].pc = "fetch"
    /\ Scenarios[run[s].sc].fetch = "ok"
    /\ run' = [run EXCEPT ![s].pc = "read", ![s].buffer = InitialBuffer(s)]
    /\ UNCHANGED <<messages, input, isLoading, error, toolMessages, pos, turnNo, mounted>>

\* reader.read() yields the next k bytes, any number of those still to come
\* (lines 108-155): the chunk is
\* appended, the complete frames are dispatched, and the loop reads again
\* unless a frame threw or the render crashed.  ids[i] is the value of Date.now() + Math.random()
\* (lines 131, 135) for the i-th notice the chunk creates: a number the
\* clock and the generator decide, the same for two notices when they are
\* made in the same millisecond and the random parts round to one float.
ReadChunk(s) ==
    /\ run[s].pc = "read"
    /\ \E k \in 1..(Len(Scenarios[run[s].sc].body) - pos[s]) :
       /\ pos' = [pos EXCEPT ![s] = @ + k]
       /\ \E appended \in {AppendChunk(run[s].buffer,
                 SubSeq(Scenarios[run[s].sc].body, pos[s] + 1, pos[s] + k))} :
          \E n \in {NoticeCount(appended)} :
          \E ids \in [1..n -> 0..MaxId] :
          \E out \in {Drain(appended,
                 [messages |-> messages, toolMessages |-> toolMessages,
                  error |-> error, thrown |-> Null, events |-> run[s].events,
                  ids |-> ids])} :
          \E threw \in {out.st.thrown # Null} :
          \E crashed \in {RenderCrashes(out.st.thrown)} :
             /\ mounted' = ~crashed
             /\ messages' = IF crashed THEN messages ELSE out.st.messages
             /\ toolMessages' = IF crashed THEN toolMessages ELSE out.st.toolMessages
             /\ error' = IF crashed THEN error
                         ELSE IF threw THEN CatchMessage(out.st.thrown)
                         ELSE out.st.error
             /\ isLoading' = IF crashed THEN isLoading
                             ELSE IF threw THEN FinallyLoading(TRUE)
                             ELSE isLoading
             /\ run' = [run EXCEPT
                    ![s].buffer = out.buffer,
                    ![s].events = out.st.events,
                    ![s].split = @ \/ EndsInsideTerminator(appended,
                                          SliceFrom(Scenarios[run[s].sc].body, pos[s] + k)),
                    ![s].pc = IF threw THEN "done" ELSE "read",
                    ![s].outcome = IF crashed THEN "crashed"
                                   ELSE IF threw THEN "threw" ELSE "none"]
    /\ UNCHANGED <<input, turnNo>>

\* Mutant: on done the rest of the buffer is dispatched as a last frame.
ReadDoneFlushing(s) ==
    /\ run[s].pc = "read"
    /\ pos[s] = Len(Scenarios[run[s].sc].body)
    /\ Scenarios[run[s].sc].ending = "close"
    /\ \E flushed \in {run[s].buffer \o <<"\n", "\n">>} :
       \E out \in {Drain(flushed,
              [messages |-> messages, toolMessages |-> toolMessages,
               error |-> error, thrown |-> Null, events |-> run[s].events,
               ids |-> [i \in 1..NoticeCount(flushed) |-> 0]])} :
          /\ messages' = out.st.messages
          /\ toolMessages' = out.st.toolMessages
          /\ error' = out.st.error
          /\ run' = [run EXCEPT ![s].pc = "done", ![s].outcome = "closed",
                                 ![s].events = out.st.events]
    /\ isLoading' = FinallyLoading(FALSE)
    /\ UNCHANGED <<input, pos, turnNo, mounted>>

\* reader.read() reports done (line 109): break, then the finally block.
ReadDone(s) ==
    /\ run[s].pc = "read"
    /\ pos[s] = Len(Scenarios[run[s].sc].body)
    /\ Scenarios[run[s].sc].ending = "close"
    /\ isLoading' = FinallyLoading(FALSE)
    /\ run' = [run EXCEPT ![s].pc = "done", ![s].outcome = "closed"]
    /\ UNCHANGED <<messages, input, error, toolMessages, pos, turnNo, mounted>>

\* reader.read() rejects (line 108): the connection dropped.
ReadRejected(s) ==
    /\ run[s].pc = "read"
    /\ pos[s] = Len(Scenarios[run[s].sc].body)
    /\ Scenarios[run[s].sc].ending = "abort"
    /\ Fail(s, MsgNetwork, "read rejected")
    /\ UNCHANGED <<messages, input, toolMessages, pos, turnNo, mounted>>

Next ==
    \/ \E v \in InputValues : SetInput(v)
    \/ \E s \in Runs, sc \in 1..Len(Scenarios) : HandleSend(s, sc)
    \/ \E s \in Runs : FetchRejected(s)
    \/ \E s \in Runs : FetchNotOk(s)
    \/ \E s \in Runs : FetchOk(s)
    \/ \E s \in Runs : ReadChunk(s)
    \/ \E s \in Runs : ReadDone(s)
    \/ \E s \in Runs : ReadRejected(s)

Spec == Init /\ [][Next]_vars

\* The network settles the pending promise of run s without delivering bytes.
Settle(s) ==
    \/ FetchRejected(s)
    \/ FetchNotOk(s)
    \/ FetchOk(s)
    \/ ReadDone(s)
    \/ ReadRejected(s)

\* Some run awaits bytes of its body that are still to come: the condition
\* under which a ReadChunk step is possible.
ReadPending == \E s \in Runs : run[s].pc = "read" /\ pos[s] < Len(Scenarios[run[s].sc].body)

\* Every request is answered and every read returns: the network never
\* leaves a promise pending for ever.  The second conjunct is weak fairness
\* of ReadChunk, with its enabling condition written as ReadPending.
LiveSpec ==
    /\ Spec
    /\ WF_vars(\E s \in Runs : Settle(s))
    /\ ([]<>~ReadPending \/ []<><<\E s \in Runs : ReadChunk(s)>>_vars)

(***************************************************************************)
(* Definitions used to state the properties.                               *)
(***************************************************************************)
BodyOf(s) == Scenarios[run[s].sc].body

\* The bytes of its body that run s has received.
Received(s) == SubSeq(BodyOf(s), 1, pos[s])

\* What handling text as one single chunk dispatches and leaves buffered,
\* from an empty buffer.
OneChunk(text) ==
    Drain(AppendChunk(<<>>, text),
          [messages |-> <<>>, toolMessages |-> <<>>, error |-> Null,
           thrown |-> Null, events |-> <<>>,
           ids |-> [i \in 1..NoticeCount(StripCR(text)) |-> 0]])

Tags(events) == [i \in 1..Len(events) |-> events[i].event]

\* data is the JSON text of a Message: an object whose role and content
\* are strings.
IsMessageJson(data) ==
    LET parsed == JSONParse(data)
    IN  /\ parsed.ok
        /\ parsed.kind = "object"
        /\ Prop(parsed, KeyRole) \notin {Undefined, Null}
        /\ Prop(parsed, KeyContent) \notin {Undefined, Null}

MessageOf(data) ==
    [role |-> Prop(JSONParse(data), KeyRole),
     content |-> Prop(JSONParse(data), KeyContent)]

InFlight == {s \in Runs : run[s].pc \in {"fetch", "read"}}

\* The complete frames of a text, blank ones left out, each parsed.
RECURSIVE Frames(_)
Frames(text) ==
    LET index == IndexOfTerminator(text)
        raw == SliceTo(text, index)
    IN  IF index = -1 THEN <<>>
        ELSE (IF Trim(raw) = <<>> THEN <<>> ELSE <<ParseFrame(raw)>>)
                 \o Frames(SliceFrom(text, index + 2))

\* The Messages of the well-formed final frames of a body, in order.
RECURSIVE FinalMessages(_)
FinalMessages(frames) ==
    IF frames = <<>> THEN <<>>
    ELSE (IF Head(frames).event = TagFinal /\ IsMessageJson(Head(frames).data)
          THEN <<MessageOf(Head(frames).data)>> ELSE <<>>)
             \o FinalMessages(Tail(frames))

\* Run s has ended and its turn failed: an error event, a response that is
\* not ok, a rejected fetch or read, or an exception while processing.
Failed(s) ==
    /\ run[s].pc = "done"
    /\ \/ run[s].outcome \in {"fetch rejected", "not ok", "read rejected", "threw"}
       \/ \E i \in 1..Len(run[s].events) : run[s].events[i].event = TagError

IsPrefix(a, b) == Len(a) <= Len(b) /\ SubSeq(b, 1, Len(a)) = a

IsSuffix(a, b) == Len(a) <= Len(b) /\ SubSeq(b, Len(b) - Len(a) + 1, Len(b)) = a

(***************************************************************************)
(* Properties.                                                             *)
(***************************************************************************)

\* C1: however the bytes of a stream are split into chunks, the read loop
\* has dispatched, at every read and at its end, exactly the (event, data)
\* pairs it dispatches when the same bytes arrive as one single chunk, and
\* holds the same undelivered tail in its buffer.
C1_ChunkingIndependent ==
    \A s \in Runs :
        (run[s].pc = "read" \/ run[s].outcome \in {"closed", "threw"}) =>
            /\ run[s].events = OneChunk(Received(s)).st.events
            /\ run[s].buffer = OneChunk(Received(s)).buffer

\* A stream of three frames was received whole, in chunks of which one
\* ended inside a terminator, and closed.
C1_Witness ==
    \E s \in Runs :
        /\ run[s].outcome = "closed"
        /\ run[s].split
        /\ Tags(run[s].events) = <<TagToolCall, TagToolUpdate, TagFinal>>

\* C2: a turn whose stream delivered tool_call, tool_update and a final
\* with a Message, and closed, ends with the history equal to the request's
\* messages (the history at the send and the user's Message) followed by
\* that one Message, and with no tool notice left.
C2_ToolTurnAppendsOne ==
    \A s \in Runs :
        (/\ run[s].outcome = "closed"
         /\ Tags(run[s].events) = <<TagToolCall, TagToolUpdate, TagFinal>>
         /\ IsMessageJson(run[s].events[3].data))
        => /\ messages = Append(run[s].request, MessageOf(run[s].events[3].data))
           /\ toolMessages = <<>>

\* Such a turn has ended, as the second turn, after a first turn that
\* appended no Message.
C2_Witness ==
    \E s \in Runs :
        /\ run[s].outcome = "closed"
        /\ run[s].turn = 2
        /\ Len(run[s].request) = 3
        /\ Tags(run[s].events) = <<TagToolCall, TagToolUpdate, TagFinal>>
        /\ IsMessageJson(run[s].events[3].data)

\* C3: a turn whose stream delivered one error event and nothing else, and
\* closed, ends with no Message appended after the user's, loading false
\* and the error value equal to the event's data.
C3_ErrorOnlyTurn ==
    \A s \in Runs :
        (/\ run[s].outcome = "closed"
         /\ Tags(run[s].events) = <<TagError>>)
        => /\ messages = run[s].request
           /\ isLoading = FALSE
           /\ error = run[s].events[1].data

\* Such a turn has ended and its error is shown.
C3_Witness ==
    \E s \in Runs :
        /\ run[s].outcome = "closed"
        /\ Tags(run[s].events) = <<TagError>>
        /\ error = <<"e">>

\* C4: every turn that set loading to true reaches loading false: once the
\* run of a turn has ended, by whichever path, loading is false.
C4_EndedTurnNotLoading ==
    \A s \in Runs : run[s].pc = "done" => ~isLoading

\* A turn ended by a final event whose payload is null: the render crashed
\* and loading is still true.
C4_Witness ==
    \E s \in Runs :
        /\ run[s].outcome = "crashed"
        /\ Tags(run[s].events) = <<TagFinal>>
        /\ isLoading
        /\ ~mounted

\* C5: at most one execution of handleSend is in flight, and loading is
\* true while one is, so that no send starts during a turn.
C5_OneTurnInFlight ==
    /\ Cardinality(InFlight) <= 1
    /\ InFlight # {} => isLoading

\* The second turn is reading its stream after the first has ended.
C5_Witness ==
    \E s \in Runs : run[s].pc = "read" /\ run[s].turn = 2 /\ pos[s] > 0

\* C6: when the stream closes before any final or error event was received,
\* the error value is non-null and loading is false after the close.
C6_CloseIsImplicitError ==
    \A s \in Runs :
        (/\ run[s].outcome = "closed"
         /\ \A i \in 1..Len(run[s].events) :
                run[s].events[i].event \notin {TagFinal, TagError})
        => (error # Null /\ ~isLoading)

\* A stream that carried one tool_call frame and closed: the turn has ended
\* with no error shown.
C6_Witness ==
    \E s \in Runs :
        /\ run[s].outcome = "closed"
        /\ Tags(run[s].events) = <<TagToolCall>>
        /\ error = Null
        /\ ~isLoading

\* C7: a malformed frame is dropped and decoding continues: once a stream
\* has closed, the turn has appended the Message of every well-formed final
\* frame of the body, in order, and nothing else.
C7_MalformedDropped ==
    \A s \in Runs :
        (/\ run[s].pc = "done"
         /\ Scenarios[run[s].sc].fetch = "ok"
         /\ Scenarios[run[s].sc].ending = "close")
        => messages = run[s].request \o FinalMessages(Frames(StripCR(BodyOf(s))))

\* The whole stream tool_call, final with an unparseable payload, final with
\* a Message was received, and the turn ended at the second frame.
C7_Witness ==
    \E s \in Runs :
        /\ run[s].outcome = "threw"
        /\ pos[s] = Len(BodyOf(s))
        /\ Tags(run[s].events) = <<TagToolCall, TagFinal>>
        /\ error = MsgSyntaxError
        /\ messages = run[s].request

\* C8: in every step the durable log before the step is a prefix of the log
\* after it.
C8_AppendOnly == [][IsPrefix(messages, messages')]_vars

\* Two turns have each appended the user's Message and the final Message.
C8_Witness ==
    /\ Len(messages) = 5
    /\ messages[1] = systemMessage
    /\ \E s \in Runs : run[s].turn = 2 /\ run[s].outcome = "closed"

\* C9: after a failed turn has ended, the durable history equals the history
\* from before the turn was sent, and a new send is enabled.
C9_FailedTurnLeavesHistory ==
    \A s \in Runs :
        Failed(s) =>
            /\ messages = SubSeq(run[s].request, 1, Len(run[s].request) - 1)
            /\ ~SendDisabled

\* A turn whose fetch was rejected has ended: the user's Message is in the
\* history and a new send is enabled.
C9_Witness ==
    \E s \in Runs :
        /\ run[s].outcome = "fetch rejected"
        /\ messages = run[s].request
        /\ ~SendDisabled

\* C10: the buffer of a turn holds bytes of its own stream only: it is a
\* suffix of what the turn has received (carriage returns removed), hence
\* empty when the connection opens.
C10_BufferOfOwnTurn ==
    \A s \in Runs :
        run[s].pc = "read" => IsSuffix(run[s].buffer, StripCR(Received(s)))

\* The second turn has its connection open and has received nothing yet,
\* after a first turn that left a partial frame in its buffer.
C10_Witness ==
    \E s \in Runs :
        run[s].turn = 2 /\ run[s].stale /\ run[s].pc = "read" /\ pos[s] = 0

\* C11: in the state right after a final or error event was applied, that
\* is while it is the last event the run has dispatched, loading is false,
\* even if the stream has not closed.
C11_TerminalClearsLoading ==
    \A s \in Runs :
        (/\ run[s].events # <<>>
         /\ run[s].events[Len(run[s].events)].event \in {TagFinal, TagError})
        => ~isLoading

\* A final event has been applied, its Message appended, and the run waits
\* for the next read with loading still true.
C11_Witness ==
    \E s \in Runs :
        /\ run[s].pc = "read"
        /\ Tags(run[s].events) = <<TagToolCall, TagToolUpdate, TagFinal>>
        /\ messages = Append(run[s].request, MessageOf(run[s].events[3].data))
        /\ isLoading

\* The tags of the events run s dispatches in the step.
NewTags(s) ==
    [i \in 1..(Len(run'[s].events) - Len(run[s].events)) |->
        run'[s].events[Len(run[s].events) + i].event]

\* C12: the notices shrink only in a step that dispatches a final event,
\* which empties them: every other step (an error event, a close, a caught
\* failure, the send of a new turn) leaves the notices it found in place.
C12_NoticesShrinkOnlyOnFinal ==
    [][\/ IsPrefix(toolMessages, toolMessages')
       \/ \E s \in Runs :
             /\ run[s].pc = "read"
             /\ \E i \in 1..Len(NewTags(s)) : NewTags(s)[i] = TagFinal
             /\ NewTags(s)[Len(NewTags(s))] = TagFinal => toolMessages' = <<>>]_vars

\* The second turn is under way and has dispatched nothing yet, while a
\* notice of the first turn, which ended without final, is still shown.
C12_Witness ==
    \E s \in Runs :
        /\ run[s].turn = 2
        /\ run[s].pc = "read"
        /\ run[s].events = <<>>
        /\ toolMessages # <<>>

\* C13: a step that dispatches one tool_call or tool_update event, and no
\* other event, appends exactly one notice, whose content is the event's
\* data, and leaves the durable history, loading and the error unchanged.
C13_ToolEventAppendsNotice ==
    [][\A s \in Runs :
          (/\ run[s].pc = "read"
           /\ Len(NewTags(s)) = 1
           /\ NewTags(s)[1] \in {TagToolCall, TagToolUpdate})
          => /\ Len(toolMessages') = Len(toolMessages) + 1
             /\ IsPrefix(toolMessages, toolMessages')
             /\ toolMessages'[Len(toolMessages')].content
                    = run'[s].events[Len(run'[s].events)].data
             /\ messages' = messages
             /\ isLoading' = isLoading
             /\ error' = error]_vars

\* tool_call and tool_update have been dispatched: two notices with the
\* texts of the events, the history as sent, loading still true.
C13_Witness ==
    \E s \in Runs :
        /\ run[s].pc = "read"
        /\ Tags(run[s].events) = <<TagToolCall, TagToolUpdate>>
        /\ [i \in 1..Len(toolMessages) |-> toolMessages[i].content] = << <<"c">>, <<"u">> >>
        /\ messages = run[s].request
        /\ isLoading

\* C14: the step that sends a turn sets loading to true and the error to
\* null, appends exactly one Message, the user's with the input as content,
\* and opens exactly one connection, whose run has dispatched no event yet.
C14_SendEffects ==
    [][turnNo' # turnNo =>
          /\ Trim(input) # <<>>
          /\ isLoading'
          /\ error' = Null
          /\ messages' = Append(messages, [role |-> RoleUser, content |-> input])
          /\ \E s \in Runs :
                /\ run[s].pc # "fetch" /\ run'[s].pc = "fetch"
                /\ run'[s].events = <<>>
                /\ \A t \in Runs \ {s} : run'[t] = run[t]]_vars

\* The second turn has been sent after a first turn that appended no
\* Message: its request is pending, the error is null, the user's Message
\* is last.
C14_Witness ==
    \E s \in Runs :
        /\ run[s].turn = 2
        /\ run[s].pc = "fetch"
        /\ isLoading
        /\ error = Null
        /\ Len(messages) = 3
        /\ messages[3] = [role |-> RoleUser, content |-> <<" ", "h", "i">>]

\* C15: while a run waits for the next read, its buffer holds no
\* terminator; it is the tail of the bytes received, after the last
\* terminator; and the events dispatched are exactly the complete frames
\* received, in order, the blank ones left out.
C15_NoTerminatorBuffered ==
    \A s \in Runs :
        run[s].pc = "read" =>
            LET received == StripCR(Received(s))
                consumed == Len(received) - Len(run[s].buffer)
            IN  /\ IndexOfTerminator(run[s].buffer) = -1
                /\ IsSuffix(run[s].buffer, received)
                /\ consumed = 0
                     \/ SubSeq(received, consumed - 1, consumed) = <<"\n", "\n">>
                /\ run[s].events = Frames(received)

\* Two frames have been dispatched, a chunk ended inside a terminator, and
\* the beginning of a third frame waits in the buffer.
C15_Witness ==
    \E s \in Runs :
        /\ run[s].pc = "read"
        /\ run[s].split
        /\ Tags(run[s].events) = <<TagToolCall, TagToolUpdate>>
        /\ StartsWith(run[s].buffer, EventPrefix \o TagFinal)

\* C16: the notices shown have pairwise distinct ids.
C16_DistinctIds ==
    \A i, j \in 1..Len(toolMessages) :
        i # j => toolMessages[i].id # toolMessages[j].id

\* Two notices created while one chunk was processed carry the same id.
C16_Witness ==
    \E s \in Runs :
        /\ Tags(run[s].events) = <<TagToolCall, TagToolUpdate>>
        /\ Len(toolMessages) = 2
        /\ toolMessages[1].id = toolMessages[2].id

\* C17: the messages of the request a send step makes are the durable
\* history as the step finds it followed by the user's Message of the turn,
\* each of them a Message (role and content), none of them a notice.
C17_RequestIsHistory ==
    [][turnNo' # turnNo =>
          \E s \in Runs :
              /\ run[s].pc # "fetch" /\ run'[s].pc = "fetch"
              /\ run'[s].request
                     = Append(messages, [role |-> RoleUser, content |-> input])
              /\ \A i \in 1..Len(run'[s].request) :
                     DOMAIN run'[s].request[i] = {"role", "content"}]_vars

\* The second turn has been sent while a notice of the first turn is shown:
\* its request holds the system Message and the user's Messages of both
\* turns.
C17_Witness ==
    \E s \in Runs :
        /\ run[s].turn = 2
        /\ run[s].pc = "fetch"
        /\ toolMessages # <<>>
        /\ Len(run[s].request) = 3
        /\ run[s].request[1] = systemMessage
        /\ run[s].request[2].role = RoleUser
        /\ run[s].request[3].role = RoleUser

\* C18: a step that dispatches one final event, and no other event, applies
\* its effect fully or not at all: it empties the notices and appends one
\* Message, or it changes neither the notices nor the durable history.
C18_FinalAppliedWhole ==
    [][\A s \in Runs :
          (run[s].pc = "read" /\ NewTags(s) = <<TagFinal>>)
          => \/ /\ toolMessages' = <<>>
                /\ Len(messages') = Len(messages) + 1
                /\ IsPrefix(messages, messages')
             \/ /\ toolMessages' = toolMessages
                /\ messages' = messages]_vars

\* A final event with an unparseable payload was dispatched after a
\* tool_call: the notice is gone and no Message was appended.
C18_Witness ==
    \E s \in Runs :
        /\ run[s].outcome = "threw"
        /\ Tags(run[s].events) = <<TagToolCall, TagFinal>>
        /\ toolMessages = <<>>
        /\ messages = run[s].request

\* C19: the step in which the stream closes dispatches nothing and leaves
\* the durable history, the notices and the error as they were, whatever
\* unterminated frame is left in the buffer: the events of the turn are the
\* terminated frames of its body.
C19_UnterminatedDiscarded ==
    [][\A s \in Runs :
          (run[s].pc = "read" /\ run'[s].outcome = "closed")
          => /\ messages' = messages
             /\ toolMessages' = toolMessages
             /\ error' = error
             /\ run'[s].events = run[s].events
             /\ run'[s].events = Frames(StripCR(Scenarios[run'[s].sc].body))]_vars

\* A stream closed with a final frame that lacks its terminator in the
\* buffer: nothing was dispatched and nothing appended.
C19_Witness ==
    \E s \in Runs :
        /\ run[s].outcome = "closed"
        /\ StartsWith(run[s].buffer, EventPrefix \o TagFinal)
        /\ run[s].events = <<>>
        /\ messages = run[s].request
        /\ error = Null

\* C20: a turn applies every complete frame it has received, also after a
\* terminal event: the events dispatched are the complete frames received,
\* the Messages appended are those of the well-formed final frames
\* dispatched, and an error event keeps the error set while later events
\* are applied.
C20_AppliesEveryFrame ==
    \A s \in Runs :
        run[s].pc # "idle" =>
            LET errors == {i \in 1..Len(run[s].events) :
                              run[s].events[i].event = TagError}
            IN  /\ run[s].events = Frames(StripCR(Received(s)))
                /\ messages = run[s].request \o FinalMessages(run[s].events)
                /\ (errors # {} /\ run[s].outcome # "threw") =>
                       error = run[s].events[CHOOSE i \in errors :
                                                \A j \in errors : j <= i].data

\* A turn ended at a final frame with an unparseable payload while a
\* complete frame, received in the same chunk, is left in its buffer.
C20_Witness ==
    \E s \in Runs :
        /\ run[s].outcome = "threw"
        /\ IndexOfTerminator(run[s].buffer) # -1
        /\ Frames(run[s].buffer) # <<>>

====
